---------------------------- MODULE Spec2Model ----------------------------
(***************************************************************************)
(* Model of src/src/main.rs of vitordhers/arbitrage_bot: one run of main   *)
(* (fetch two order books, check_arbitrage, take_trade_action, print), and *)
(* the functions take_trade_action and get_mb_fee_rate on their own.       *)
(*                                                                         *)
(* Numbers.  The program computes in f64.  The model computes exactly, in  *)
(* integers: a price is a whole number of BRL, a quantity a whole number   *)
(* of units of the base currency, a fee rate a number of 1/RateDen, and a  *)
(* BRL amount (cost, profit, BRL balance) a number of 1/RateDen BRL.  On   *)
(* every book the model draws, IEEE double evaluation of check_arbitrage   *)
(* takes the same branch, returns the same variant and quantity, and has   *)
(* profit = 0.0 exactly where the exact profit is 0 (993 * 0.001 +         *)
(* 1001 * 0.007 is 8.0 in f64).  NaN and infinite inputs are not modelled. *)
(***************************************************************************)
EXTENDS Integers, Sequences, FiniteSets

VARIABLES
    pc,                  \* position of main / of the function under check
    binance_order_book,  \* main.rs:13
    mb_order_book,       \* main.rs:14
    balance,             \* main.rs:16, the caller's ledger
    checked,             \* value returned by check_arbitrage (main.rs:18)
    mb_fee,              \* arguments and return value of get_mb_fee_rate
    legs,                \* the leg calls made by take_trade_action, in order
    trade_result,        \* value returned by take_trade_action (main.rs:20)
    printed,             \* the ledger printed at main.rs:24
    result               \* how main ended

vars == <<pc, binance_order_book, mb_order_book, balance, checked, mb_fee,
          legs, trade_result, printed, result>>

---------------------------------------------------------------------------
(* Bounds and scales *)

\* Quantities drawn for a price level: 1..MaxQty.
MaxQty == 2

\* Common denominator of the fee rates 0.001, 0.007, 0.006, 0.005, 0.0045,
\* 0.004, 0.003, 0.0025; BRL amounts are counted in 1/RateDen BRL.
RateDen == 2000

\* const BINANCE_FEE_RATE: f64 = 0.001, in 1/RateDen.
BINANCE_FEE_RATE == 2

\* limit=1 in both depth requests: a side holds at most one level.
Limit == 1

Quantities == 1..MaxQty

\* Prices of the order books of a run of main.  993/1001 is the breakeven of
\* direction ShortMb at quantities 1 and 1, 1007/999 that of ShortBinance;
\* 250000 reaches the first band's upper bound (quantity 2); 600000 reaches
\* the second fee band (quantity 1) and the notional values above 1,000,000
\* (quantity 2 and more).
Prices == {993, 999, 1001, 1007, 250000, 600000}

Currency == {"BRL", "BTC", "USDT", "ETH"}
Symbol == {"BTCBRL", "USDTBRL", "ETHBRL"}

\* #[default] BTCBRL
DefaultSymbol == "BTCBRL"

---------------------------------------------------------------------------
(* Data and OrderBook *)

Data(price, qty) == [price |-> price, qty |-> qty]

Levels == {Data(p, q) : p \in Prices, q \in Quantities}

\* A side of a book as the venue sends it with limit=1: nothing or one level.
Sides == UNION {[1..n -> Levels] : n \in 0..Limit}

OrderBook(bids, asks) == [bids |-> bids, asks |-> asks]

\* A Binance level on the wire is a pair of strings: both numeric, or not.
Malformed == [price |-> 0, qty |-> 0]
WireSides == UNION {[1..n -> Levels \cup {Malformed}] : n \in 0..Limit}

\* OrderBook::new_from_string: parse::<f64>().unwrap() on every field.
new_from_string(bids, asks) ==
    IF \E i \in 1..Len(bids) : bids[i] = Malformed THEN [tag |-> "panic"]
    ELSE IF \E i \in 1..Len(asks) : asks[i] = Malformed THEN [tag |-> "panic"]
    ELSE [tag |-> "Ok", book |-> OrderBook(bids, asks)]

\* OrderBook::new_from_f64
new_from_f64(bids, asks) == OrderBook(bids, asks)

NoBook == OrderBook(<<>>, <<>>)

---------------------------------------------------------------------------
(* get_mb_fee_rate *)

\* The arms of the match on deal_total, in the order of the source, with the
\* literals as the compiler reads them (10_000_00.0 is 1000000.0).  lo is the
\* exclusive lower guard (t > lo) and hi the inclusive upper guard
\* (t <= hi); has_lo / has_hi tell which guards the arm has.  rate is in
\* 1/RateDen.
Arms == <<
    [has_lo |-> FALSE, lo |-> 0,         has_hi |-> TRUE,  hi |-> 500000,   rate |-> 14],
    [has_lo |-> TRUE,  lo |-> 500000,    has_hi |-> TRUE,  hi |-> 1000000,  rate |-> 12],
    [has_lo |-> TRUE,  lo |-> 10000000,  has_hi |-> TRUE,  hi |-> 2000000,  rate |-> 10],
    [has_lo |-> TRUE,  lo |-> 20000000,  has_hi |-> TRUE,  hi |-> 5000000,  rate |-> 9],
    [has_lo |-> TRUE,  lo |-> 50000000,  has_hi |-> TRUE,  hi |-> 10000000, rate |-> 8],
    [has_lo |-> TRUE,  lo |-> 100000000, has_hi |-> TRUE,  hi |-> 20000000, rate |-> 6],
    [has_lo |-> TRUE,  lo |-> 200000000, has_hi |-> FALSE, hi |-> 0,        rate |-> 5] >>

\* The guard of arm i on deal_total t.
ArmMatches(i, t) ==
    /\ (Arms[i].has_lo => t > Arms[i].lo)
    /\ (Arms[i].has_hi => t <= Arms[i].hi)

MatchingArms(t) == {i \in 1..Len(Arms) : ArmMatches(i, t)}

\* match takes the first arm whose guard holds; `_ => unreachable!()` panics.
get_mb_fee_rate(price, qty) ==
    LET deal_total == price * qty
        m == MatchingArms(deal_total)
    IN  IF m = {} THEN [tag |-> "unreachable"]
        ELSE [tag |-> "rate",
              rate |-> Arms[CHOOSE i \in m : \A j \in m : i <= j].rate]

NoFee == [called |-> FALSE]
FeeCall(price, qty, ret) ==
    [called |-> TRUE, price |-> price, qty |-> qty, ret |-> ret]

---------------------------------------------------------------------------
(* check_arbitrage *)

None == [tag |-> "None"]
Some(profit, action) == [tag |-> "Some", profit |-> profit, action |-> action]
Panicked == [tag |-> "panic"]

\* enum TradeAction: kind is the variant, ShortBinance or ShortMb.
TradeAction(kind, ask_price, bid_price, qty, symbol, costs) ==
    [kind |-> kind, ask_price |-> ask_price, bid_price |-> bid_price,
     qty |-> qty, symbol |-> symbol, costs |-> costs]

\* Mutant of Crosses: equal prices count as a crossing.
Crosses_OrEqual(bid, ask) == bid >= ask

\* The comparison of both trigger conditions: `best_bid_mb > best_ask_binance`
\* and `best_bid_binance > best_ask_mb`.
Crosses(bid, ask) == bid > ask

\* Mutant of Direction: the second trigger is tested first.
Direction_ShortBinanceFirst(best_bid_mb, best_ask_binance, best_bid_binance, best_ask_mb) ==
    IF Crosses(best_bid_binance, best_ask_mb) THEN "ShortBinance"
    ELSE IF Crosses(best_bid_mb, best_ask_binance) THEN "ShortMb"
    ELSE "None"

\* The if / else if chain: the first trigger is tested first, the second only
\* when the first does not hold.
Direction(best_bid_mb, best_ask_binance, best_bid_binance, best_ask_mb) ==
    IF Crosses(best_bid_mb, best_ask_binance) THEN "ShortMb"
    ELSE IF Crosses(best_bid_binance, best_ask_mb) THEN "ShortBinance"
    ELSE "None"

\* Mutant of ProfitAccepted: breakeven is refused.
ProfitAccepted_Strict(profit) == profit > 0

\* `if profit >= 0.0`
ProfitAccepted(profit) == profit >= 0

\* Mutant of TradeQty: the Binance level's quantity, not the smaller one.
TradeQty_First(a, b) == a

\* f64::min of the two consumed quantities.
TradeQty(a, b) == IF a <= b THEN a ELSE b

\* The body of a taken branch.  `bid` and `ask` are the consumed levels,
\* binance_level and mb_level the same two levels by venue: each cost is
\* price * qty * rate of that venue's own level.  Amounts are in 1/RateDen BRL.
Branch(kind, bid, ask, binance_level, mb_level, symbol) ==
    LET costless_profit == (bid.price - ask.price) * RateDen
        binance_cost == binance_level.price * binance_level.qty * BINANCE_FEE_RATE
        fee == get_mb_fee_rate(mb_level.price, mb_level.qty)
        call == FeeCall(mb_level.price, mb_level.qty, fee)
    IN  IF fee.tag = "unreachable" THEN [ret |-> Panicked, fee |-> call]
        ELSE LET mb_cost == mb_level.price * mb_level.qty * fee.rate
                 costs == (0 - binance_cost) - mb_cost
                 profit == costless_profit + costs
             IN  IF ProfitAccepted(profit)
                 THEN [ret |-> Some(profit,
                                    TradeAction(kind, ask.price, bid.price,
                                                TradeQty(binance_level.qty, mb_level.qty),
                                                symbol, costs)),
                       fee |-> call]
                 ELSE [ret |-> None, fee |-> call]

\* check_arbitrage, with the call of get_mb_fee_rate it made (if any).
check_arbitrage_run(binance, mb, symbol) ==
    IF binance.asks = <<>> THEN [ret |-> None, fee |-> NoFee]
    ELSE IF mb.bids = <<>> THEN [ret |-> None, fee |-> NoFee]
    ELSE IF mb.asks = <<>> THEN [ret |-> None, fee |-> NoFee]
    ELSE IF binance.bids = <<>> THEN [ret |-> None, fee |-> NoFee]
    ELSE LET binance_ask == Head(binance.asks)
             mb_bid == Head(mb.bids)
             mb_ask == Head(mb.asks)
             binance_bid == Head(binance.bids)
             d == Direction(mb_bid.price, binance_ask.price,
                            binance_bid.price, mb_ask.price)
         IN  IF d = "ShortMb"
             THEN Branch("ShortMb", mb_bid, binance_ask, binance_ask, mb_bid, symbol)
             ELSE IF d = "ShortBinance"
             THEN Branch("ShortBinance", binance_bid, mb_ask, binance_bid, mb_ask, symbol)
             ELSE [ret |-> None, fee |-> NoFee]

check_arbitrage(binance, mb, symbol) == check_arbitrage_run(binance, mb, symbol).ret

---------------------------------------------------------------------------
(* The ledger and take_trade_action *)

\* HashMap::insert
Insert(m, k, v) == [c \in DOMAIN m \cup {k} |-> IF c = k THEN v ELSE m[c]]

\* The ledger before main.rs:16 has run.
NoBalance == [c \in {} |-> 0]

\* Mutant of get_default_balance: BRL 5_000.0.
get_default_balance_5000 ==
    Insert(Insert(Insert(Insert(NoBalance, "BRL", 5000 * RateDen),
                         "BTC", 0), "ETH", 0), "USDT", 0)

\* get_default_balance: BRL 50_000.0, the others 0.0.
get_default_balance ==
    Insert(Insert(Insert(Insert(NoBalance, "BRL", 50000 * RateDen),
                         "BTC", 0), "ETH", 0), "USDT", 0)

\* Mutant of BaseCurrency: the ETHBRL arm copied from the USDTBRL arm.
BaseCurrency_CopiedArm(symbol) ==
    CASE symbol = "BTCBRL" -> "BTC"
      [] symbol = "USDTBRL" -> "USDT"
      [] symbol = "ETHBRL" -> "USDT"

\* The currency each arm of `match symbol` credits.
BaseCurrency(symbol) ==
    CASE symbol = "BTCBRL" -> "BTC"
      [] symbol = "USDTBRL" -> "USDT"
      [] symbol = "ETHBRL" -> "ETH"

\* `match symbol { ... }` of take_trade_action: get().unwrap() of BRL and of
\* the base currency, then the two inserts into a clone.
Settlement(symbol, current_balance, ask_price, qty, costs) ==
    LET base == BaseCurrency(symbol)
    IN  IF "BRL" \notin DOMAIN current_balance \/ base \notin DOMAIN current_balance
        THEN [tag |-> "panic"]
        ELSE LET balance_brl == (current_balance["BRL"] - (qty * ask_price * RateDen)) - costs
                 balance_base == current_balance[base] + qty
             IN  [tag |-> "Ok",
                  balance |-> Insert(Insert(current_balance, "BRL", balance_brl),
                                     base, balance_base)]

\* Mutant of Try: the leg's result is dropped (`let _ = leg.await;`).
Try_Ignored(r) == TRUE

\* The `?` after a leg's await: go on when the leg returned Ok.
Try(r) == r = "Ok"

\* What a leg call can return by its type, Result<(), Error>.  The four leg
\* functions of this source sleep and return Ok(()); take_trade_action handles
\* both values with `?`.  The model lets a leg return either, so that the Err
\* paths of take_trade_action and main are part of it: every run of the source
\* is a run of the model in which every leg returns Ok.
LegResults == {"Ok", "Err"}

Pending == [tag |-> "pending"]
Err == [tag |-> "Err"]

\* The first leg of each variant: short_binance / short_mb with bid_price.
ShortLegName(kind) == IF kind = "ShortBinance" THEN "short_binance" ELSE "short_mb"
\* The second leg: long_mb / long_binance with ask_price.
LongLegName(kind) == IF kind = "ShortBinance" THEN "long_mb" ELSE "long_binance"

LegCall(name, symbol, qty, price, res) ==
    [leg |-> name, symbol |-> symbol, qty |-> qty, price |-> price, res |-> res]

---------------------------------------------------------------------------
(* One run of main *)

Init ==
    /\ pc = "fetch_binance"
    /\ binance_order_book = NoBook
    /\ mb_order_book = NoBook
    /\ balance = NoBalance
    /\ checked = Pending
    /\ mb_fee = NoFee
    /\ legs = <<>>
    /\ trade_result = Pending
    /\ printed = NoBalance
    /\ result = "running"

\* main.rs:13, fetch_binance_order_book(symbol).await? with a response that
\* deserializes; new_from_string panics on a field that is not a number.
FetchBinance ==
    /\ pc = "fetch_binance"
    /\ \E bids \in WireSides, asks \in WireSides :
          LET r == new_from_string(bids, asks)
          IN  IF r.tag = "panic"
              THEN /\ pc' = "done"
                   /\ result' = "panic"
                   /\ UNCHANGED binance_order_book
              ELSE /\ pc' = "fetch_mb"
                   /\ binance_order_book' = r.book
                   /\ UNCHANGED result
    /\ UNCHANGED <<mb_order_book, balance, checked, mb_fee, legs, trade_result, printed>>

\* main.rs:13, the request or the deserialization fails: `?` returns the Err.
FetchBinanceErr ==
    /\ pc = "fetch_binance"
    /\ pc' = "done"
    /\ result' = "Err"
    /\ UNCHANGED <<binance_order_book, mb_order_book, balance, checked, mb_fee,
                   legs, trade_result, printed>>

\* main.rs:14, fetch_mb_order_book(symbol).await? with a response that
\* deserializes.
FetchMb ==
    /\ pc = "fetch_mb"
    /\ \E bids \in Sides, asks \in Sides :
          mb_order_book' = new_from_f64(bids, asks)
    /\ pc' = "default_balance"
    /\ UNCHANGED <<binance_order_book, balance, checked, mb_fee, legs,
                   trade_result, printed, result>>

\* main.rs:14, the request or the deserialization fails.
FetchMbErr ==
    /\ pc = "fetch_mb"
    /\ pc' = "done"
    /\ result' = "Err"
    /\ UNCHANGED <<binance_order_book, mb_order_book, balance, checked, mb_fee,
                   legs, trade_result, printed>>

\* main.rs:16
DefaultBalance ==
    /\ pc = "default_balance"
    /\ balance' = get_default_balance
    /\ pc' = "check_arbitrage"
    /\ UNCHANGED <<binance_order_book, mb_order_book, checked, mb_fee, legs,
                   trade_result, printed, result>>

\* main.rs:18, the call of check_arbitrage and the `if let Some`.
CheckArbitrage ==
    /\ pc = "check_arbitrage"
    /\ LET run == check_arbitrage_run(binance_order_book, mb_order_book, DefaultSymbol)
       IN  /\ checked' = check_arbitrage(binance_order_book, mb_order_book, DefaultSymbol)
           /\ mb_fee' = run.fee
           /\ pc' = CASE run.ret.tag = "Some" -> "short_leg"
                      [] run.ret.tag = "None" -> "print"
                      [] run.ret.tag = "panic" -> "done"
           /\ result' = IF run.ret.tag = "panic" THEN "panic" ELSE result
    /\ UNCHANGED <<binance_order_book, mb_order_book, balance, legs,
                   trade_result, printed>>

\* take_trade_action, main.rs:155 / 166: the short leg with bid_price, then `?`.
ShortLeg ==
    /\ pc = "short_leg"
    /\ \E r \in LegResults :
          LET a == checked.action
          IN  /\ legs' = Append(legs, LegCall(ShortLegName(a.kind), a.symbol,
                                              a.qty, a.bid_price, r))
              /\ IF Try(r)
                 THEN /\ pc' = "long_leg"
                      /\ UNCHANGED trade_result
                 ELSE /\ pc' = "returned"
                      /\ trade_result' = Err
    /\ UNCHANGED <<binance_order_book, mb_order_book, balance, checked, mb_fee,
                   printed, result>>

\* take_trade_action, main.rs:156 / 167: the long leg with ask_price, then `?`.
LongLeg ==
    /\ pc = "long_leg"
    /\ \E r \in LegResults :
          LET a == checked.action
          IN  /\ legs' = Append(legs, LegCall(LongLegName(a.kind), a.symbol,
                                              a.qty, a.ask_price, r))
              /\ IF Try(r)
                 THEN /\ pc' = "settle"
                      /\ UNCHANGED trade_result
                 ELSE /\ pc' = "returned"
                      /\ trade_result' = Err
    /\ UNCHANGED <<binance_order_book, mb_order_book, balance, checked, mb_fee,
                   printed, result>>

\* take_trade_action, main.rs:172-203: the settlement and Ok(current_balance).
Settle ==
    /\ pc = "settle"
    /\ LET a == checked.action
           r == Settlement(a.symbol, balance, a.ask_price, a.qty, a.costs)
       IN  /\ trade_result' = r
           /\ pc' = IF r.tag = "panic" THEN "done" ELSE "returned"
           /\ result' = IF r.tag = "panic" THEN "panic" ELSE result
    /\ UNCHANGED <<binance_order_book, mb_order_book, balance, checked, mb_fee,
                   legs, printed>>

\* main.rs:20-21: `.await?` on the value of take_trade_action, and
\* `balance = balance_result`.
TradeReturned ==
    /\ pc = "returned"
    /\ IF trade_result.tag = "Ok"
       THEN /\ balance' = trade_result.balance
            /\ pc' = "print"
            /\ UNCHANGED result
       ELSE /\ pc' = "done"
            /\ result' = "Err"
            /\ UNCHANGED balance
    /\ UNCHANGED <<binance_order_book, mb_order_book, checked, mb_fee, legs,
                   trade_result, printed>>

\* main.rs:24-26
PrintBalance ==
    /\ pc = "print"
    /\ printed' = balance
    /\ result' = "Ok"
    /\ pc' = "done"
    /\ UNCHANGED <<binance_order_book, mb_order_book, balance, checked, mb_fee,
                   legs, trade_result>>

Next ==
    \/ FetchBinance
    \/ FetchBinanceErr
    \/ FetchMb
    \/ FetchMbErr
    \/ DefaultBalance
    \/ CheckArbitrage
    \/ ShortLeg
    \/ LongLeg
    \/ Settle
    \/ TradeReturned
    \/ PrintBalance

Spec == Init /\ [][Next]_vars

---------------------------------------------------------------------------
(* take_trade_action on its own: any instruction, any symbol, any ledger   *)
(* holding the four currencies.                                            *)

\* Ask and bid prices of the instructions drawn.
TradeAsks == {100, 993}
TradeBids == {110}
\* Total costs drawn, in 1/RateDen BRL: 0, -1 BRL, -8 BRL.
TradeCosts == {0, 0 - RateDen, 0 - (8 * RateDen)}
\* Holdings of a base currency drawn for the input ledger.
Holdings == {0, 1}

Ledgers ==
    {[c \in Currency |-> CASE c = "BRL" -> 50000 * RateDen
                           [] c = "BTC" -> btc
                           [] c = "USDT" -> usdt
                           [] c = "ETH" -> eth] :
        btc \in Holdings, usdt \in Holdings, eth \in Holdings}

InitTrade ==
    /\ pc = "short_leg"
    /\ binance_order_book = NoBook
    /\ mb_order_book = NoBook
    /\ balance \in Ledgers
    /\ \E kind \in {"ShortBinance", "ShortMb"}, ask_price \in TradeAsks,
          bid_price \in TradeBids, qty \in Quantities, symbol \in Symbol,
          costs \in TradeCosts :
          checked = Some(0, TradeAction(kind, ask_price, bid_price, qty, symbol, costs))
    /\ mb_fee = NoFee
    /\ legs = <<>>
    /\ trade_result = Pending
    /\ printed = NoBalance
    /\ result = "running"

NextTrade ==
    \/ ShortLeg
    \/ LongLeg
    \/ Settle

SpecTrade == InitTrade /\ [][NextTrade]_vars

---------------------------------------------------------------------------
(* get_mb_fee_rate on its own, on prices around every literal of the match *)

Thresholds ==
    {Arms[i].lo : i \in {j \in 1..Len(Arms) : Arms[j].has_lo}}
    \cup {Arms[i].hi : i \in {j \in 1..Len(Arms) : Arms[j].has_hi}}

FeePrices == {1} \cup UNION {{t - 1, t, t + 1} : t \in Thresholds}

InitFee ==
    /\ pc = "get_mb_fee_rate"
    /\ binance_order_book = NoBook
    /\ mb_order_book = NoBook
    /\ balance = NoBalance
    /\ checked = Pending
    /\ \E price \in FeePrices, qty \in Quantities :
          mb_fee = FeeCall(price, qty, Pending)
    /\ legs = <<>>
    /\ trade_result = Pending
    /\ printed = NoBalance
    /\ result = "running"

\* The call returns a rate, or panics at unreachable!().
GetMbFeeRate ==
    /\ pc = "get_mb_fee_rate"
    /\ LET r == get_mb_fee_rate(mb_fee.price, mb_fee.qty)
       IN  /\ mb_fee' = FeeCall(mb_fee.price, mb_fee.qty, r)
           /\ pc' = IF r.tag = "unreachable" THEN "done" ELSE "returned"
           /\ result' = IF r.tag = "unreachable" THEN "panic" ELSE result
    /\ UNCHANGED <<binance_order_book, mb_order_book, balance, checked, legs,
                   trade_result, printed>>

NextFee == GetMbFeeRate

SpecFee == InitFee /\ [][NextFee]_vars

---------------------------------------------------------------------------
(* Properties *)

\* Both books of the run hold a best bid and a best ask.
BooksComplete ==
    /\ binance_order_book.bids # <<>>
    /\ binance_order_book.asks # <<>>
    /\ mb_order_book.bids # <<>>
    /\ mb_order_book.asks # <<>>

BinanceBid == Head(binance_order_book.bids)
BinanceAsk == Head(binance_order_book.asks)
MbBid == Head(mb_order_book.bids)
MbAsk == Head(mb_order_book.asks)

\* The trigger of direction 1 (short MB, long Binance) and of direction 2
\* (short Binance, long MB), as the specification states them.
Trigger1 == BooksComplete /\ MbBid.price > BinanceAsk.price
Trigger2 == BooksComplete /\ BinanceBid.price > MbAsk.price

\* check_arbitrage has returned a value (it has not panicked).
Returned == checked.tag \in {"Some", "None"}

\* The base currency of each symbol, as the specification's data model has it.
BaseOf(symbol) ==
    IF symbol = "BTCBRL" THEN "BTC"
    ELSE IF symbol = "USDTBRL" THEN "USDT" ELSE "ETH"

Abs(x) == IF x < 0 THEN 0 - x ELSE x

\* C1: once both legs succeed, the returned ledger has BRL reduced by
\* quantity * ask_price plus the fee magnitude |total_cost|, and the symbol's
\* base currency increased by quantity.
SettlementDebitsFees ==
    trade_result.tag = "Ok" =>
        LET a == checked.action
        IN  /\ trade_result.balance["BRL"] =
                   balance["BRL"] - ((a.qty * a.ask_price * RateDen) + Abs(a.costs))
            /\ trade_result.balance[BaseOf(a.symbol)] =
                   balance[BaseOf(a.symbol)] + a.qty

\* C2: every call of get_mb_fee_rate matches its notional value to exactly one
\* band and returns a rate; unreachable!() is never reached.
FeeBandsTotal ==
    (mb_fee.called /\ mb_fee.ret # Pending) =>
        /\ Cardinality(MatchingArms(mb_fee.price * mb_fee.qty)) = 1
        /\ mb_fee.ret.tag = "rate"

\* C3: the ledger is settled only after the short leg and then the long leg of
\* the instruction have both returned Ok; once a leg has returned Err there is
\* no settled ledger, the caller's ledger keeps its pre-trade values, nothing
\* is printed and main ends with the Err.
SettlementAfterBothLegs ==
    /\ (pc = "settle" \/ trade_result.tag = "Ok" \/ balance \notin {NoBalance, get_default_balance}) =>
          /\ Len(legs) = 2
          /\ legs[1].leg = ShortLegName(checked.action.kind)
          /\ legs[1].res = "Ok"
          /\ legs[2].leg = LongLegName(checked.action.kind)
          /\ legs[2].res = "Ok"
    /\ (\E i \in 1..Len(legs) : legs[i].res = "Err") =>
          /\ trade_result = Err
          /\ balance = get_default_balance
          /\ printed = NoBalance
          /\ pc \in {"returned", "done"}
          /\ (pc = "done" => result = "Err")

\* C3 witness: both legs returned Ok and main holds the settled ledger.
SettledAfterBothLegs ==
    /\ pc = "print"
    /\ trade_result.tag = "Ok"
    /\ balance = trade_result.balance
    /\ Len(legs) = 2

\* C4: when both books hold a bid and an ask, the MB best bid is at most the
\* Binance best ask and the Binance best bid at most the MB best ask,
\* check_arbitrage returns None.
NoCrossingNoTrade ==
    (checked # Pending /\ BooksComplete
        /\ MbBid.price <= BinanceAsk.price
        /\ BinanceBid.price <= MbAsk.price) => checked = None

\* C4 witness: equal prices across the venues, in both directions.
EqualPricesNoTrade ==
    /\ checked = None
    /\ BooksComplete
    /\ MbBid.price = BinanceAsk.price
    /\ BinanceBid.price = MbAsk.price

\* C5: the total cost of a returned instruction is minus the sum of the two
\* legs' fees, each fee_rate(venue, price, q) * price * q with q the traded
\* quantity carried in the instruction.
CostsUseTradedQty ==
    checked.tag = "Some" =>
        LET a == checked.action
            mb_price == IF a.kind = "ShortMb" THEN a.bid_price ELSE a.ask_price
            binance_price == IF a.kind = "ShortMb" THEN a.ask_price ELSE a.bid_price
            fee == get_mb_fee_rate(mb_price, a.qty)
        IN  /\ fee.tag = "rate"
            /\ a.costs = 0 - ((binance_price * a.qty * BINANCE_FEE_RATE)
                              + (mb_price * a.qty * fee.rate))

\* The net profit of the direction check_arbitrage evaluated: raw spread plus
\* total cost, the costs as the code computes them.
NetProfit(bid, ask, binance_level, mb_level) ==
    ((bid.price - ask.price) * RateDen)
    - ((binance_level.price * binance_level.qty * BINANCE_FEE_RATE)
       + (mb_level.price * mb_level.qty * mb_fee.ret.rate))

ThresholdOf(kind, bid, ask, binance_level, mb_level) ==
    LET net == NetProfit(bid, ask, binance_level, mb_level)
    IN  IF net >= 0
        THEN /\ checked.tag = "Some"
             /\ checked.profit = net
             /\ checked.action.kind = kind
             /\ checked.action.bid_price = bid.price
             /\ checked.action.ask_price = ask.price
             /\ checked.profit = ((bid.price - ask.price) * RateDen) + checked.action.costs
        ELSE checked = None

TriggersExclusive == ~(Trigger1 /\ Trigger2)

\* C7, amended: both triggers can hold, and only when one venue's own best bid
\* exceeds its own best ask; one evaluation returns at most one instruction,
\* ShortMb only under trigger 1 and ShortBinance only under trigger 2 when
\* trigger 1 does not hold.
OneDirectionShortMbFirst ==
    /\ (Trigger1 /\ Trigger2) =>
          (MbBid.price > MbAsk.price \/ BinanceBid.price > BinanceAsk.price)
    /\ checked.tag = "Some" =>
          /\ checked.action.kind = "ShortMb" => Trigger1
          /\ checked.action.kind = "ShortBinance" => (Trigger2 /\ ~Trigger1)

\* C7 witness: both triggers hold and the ShortMb instruction is returned.
BothTriggersShortMb ==
    /\ Trigger1
    /\ Trigger2
    /\ checked.tag = "Some"
    /\ checked.action.kind = "ShortMb"

\* C8: a returned instruction carries the smaller of the quantity at the
\* consumed best bid and the quantity at the consumed best ask of its
\* direction.
QuantityClamped ==
    checked.tag = "Some" =>
        LET a == checked.action
            bid_qty == IF a.kind = "ShortMb" THEN MbBid.qty ELSE BinanceBid.qty
            ask_qty == IF a.kind = "ShortMb" THEN BinanceAsk.qty ELSE MbAsk.qty
        IN  /\ a.qty <= bid_qty
            /\ a.qty <= ask_qty
            /\ a.qty \in {bid_qty, ask_qty}

\* C8 witness: the bid holds more than the ask, the instruction the ask's
\* quantity.
ClampedToThinnerAsk ==
    /\ checked.tag = "Some"
    /\ checked.action.kind = "ShortBinance"
    /\ BinanceBid.qty = 2
    /\ MbAsk.qty = 1
    /\ checked.action.qty = 1

\* C9: the returned ledger has the keys of the input ledger, the four
\* currencies, and every currency other than BRL and the symbol's base
\* currency keeps its amount.
SettlementFrame ==
    trade_result.tag = "Ok" =>
        /\ DOMAIN trade_result.balance = DOMAIN balance
        /\ DOMAIN trade_result.balance = Currency
        /\ \A c \in Currency \ {"BRL", BaseOf(checked.action.symbol)} :
              trade_result.balance[c] = balance[c]

\* C9 witness: a settled ETH-BRL trade on a ledger that holds BTC and USDT.
SettledWithOtherHoldings ==
    /\ trade_result.tag = "Ok"
    /\ checked.action.symbol = "ETHBRL"
    /\ balance["BTC"] = 1
    /\ balance["USDT"] = 1
    /\ trade_result.balance["ETH"] = balance["ETH"] + checked.action.qty

\* BRL 50000, BTC 0, ETH 0, USDT 0.
InitialAllocation ==
    [c \in Currency |-> IF c = "BRL" THEN 50000 * RateDen ELSE 0]

\* C10: until main takes the settled ledger the ledger is the initial
\* allocation; when check_arbitrage returns None no leg is executed and the
\* ledger, also the one printed at the end, is the initial allocation.
LedgerChangedOnlyBySettlement ==
    /\ (balance # NoBalance /\ ~(pc \in {"print", "done"} /\ trade_result.tag = "Ok")) =>
          balance = InitialAllocation
    /\ checked = None =>
          /\ legs = <<>>
          /\ trade_result = Pending
          /\ balance = InitialAllocation
          /\ (pc = "done" => (printed = InitialAllocation /\ result = "Ok"))

\* C10 witness: the books cross, the net profit is negative, main ended.
NoOpportunityRunEnded ==
    /\ checked = None
    /\ mb_fee.called
    /\ pc = "done"
    /\ printed = InitialAllocation

===========================================================================
